---- MODULE Spec2Model ----
(***************************************************************************)
(* Mixture Discriminant Analysis (mda.py): the MDA object, train(), the    *)
(* EM loop of _iterate(), _e_step_lower_bound_likelihood(), _m_step() and  *)
(* posterior_probs().                                                      *)
(*                                                                         *)
(* Reals are exact rationals <<num, den>> with numpy's non-finite values:  *)
(* <<0,0>> is nan, <<1,0>> and <<-1,0>> are +inf and -inf (numpy divides   *)
(* by zero without raising).  Observations have one feature (m = 1).       *)
(* The two library calls are the environment: KMeans (any assignment the   *)
(* library can return) and multivariate_normal.pdf (densities quantised to *)
(* three levels, raising for a covariance that is not finite or singular). *)
(* The logarithms of the lower bound are not rational: the value appended  *)
(* by an E-step is drawn from BoundValues.                                 *)
(***************************************************************************)
EXTENDS Integers, Sequences, FiniteSets, TLC

\* ------------------------------------------------------------- bounds
\* max_iter is drawn from 0..MaxIterCap
MaxIterCap == 2
\* train() is called at most MaxTrains times on the instance
MaxTrains == 2

\* ------------------------------------------------- rational arithmetic
\* (the operations are functions of their evaluated arguments)
Abs(a) == IF a < 0 THEN -a ELSE a
Sign(a) == IF a > 0 THEN 1 ELSE IF a < 0 THEN -1 ELSE 0

GCDF[p \in Nat \X Nat] == IF p[2] = 0 THEN p[1] ELSE GCDF[<<p[2], p[1] % p[2]>>]
GCD(a, b) == GCDF[<<a, b>>]

Rat == Int \X Int
NaN == <<0, 0>>
IsNaN(r) == r = NaN
IsFinite(r) == r[2] > 0

\* reduce to lowest terms; a zero denominator gives nan or a signed inf
NormF[p \in Rat] ==
    IF p[2] = 0 THEN <<Sign(p[1]), 0>>
    ELSE LET g == GCD(Abs(p[1]), Abs(p[2]))
             s == Sign(p[2])
         IN  <<(s * p[1]) \div g, (s * p[2]) \div g>>
Norm(num, den) == NormF[<<num, den>>]

R(a) == <<a, 1>>
\* (the common factors are cancelled before the products are formed)
RMulF[p \in Rat \X Rat] ==
    LET a == p[1]
        b == p[2]
    IN  IF a[2] = 0 \/ b[2] = 0
        THEN Norm(a[1] * b[1], a[2] * b[2])
        ELSE LET g1 == GCD(Abs(a[1]), b[2])
                 g2 == GCD(Abs(b[1]), a[2])
             IN  Norm((a[1] \div g1) * (b[1] \div g2),
                      (a[2] \div g2) * (b[2] \div g1))
RMul(a, b) == RMulF[<<a, b>>]
RAddF[p \in Rat \X Rat] ==
    LET a == p[1]
        b == p[2]
    IN  IF a[2] = 0 /\ b[2] = 0
        THEN (IF a = b THEN a ELSE NaN)
        ELSE IF a[2] = 0 \/ b[2] = 0
        THEN Norm(a[1] * b[2] + b[1] * a[2], 0)
        ELSE LET g == GCD(a[2], b[2])
             IN  Norm(a[1] * (b[2] \div g) + b[1] * (a[2] \div g),
                      (a[2] \div g) * b[2])
RAdd(a, b) == RAddF[<<a, b>>]
RNegF[a \in Rat] == <<-a[1], a[2]>>
RNeg(a) == RNegF[a]
RSub(a, b) == RAdd(a, RNeg(b))
RInvF[a \in Rat] ==
    IF a[1] > 0 THEN Norm(a[2], a[1])
    ELSE IF a[1] < 0 THEN Norm(-a[2], -a[1])
    ELSE <<a[2], 0>>
RInv(a) == RInvF[a]
RDiv(a, b) == RMul(a, RInv(b))
RAbsF[a \in Rat] == <<Abs(a[1]), a[2]>>
RAbs(a) == RAbsF[a]
\* a > b as IEEE compares: false when either side is nan
RGtF[p \in Rat \X Rat] ==
    LET a == p[1]
        b == p[2]
    IN  IF IsNaN(a) \/ IsNaN(b) THEN FALSE
        ELSE IF a[2] = 0 /\ b[2] = 0 THEN a[1] > b[1]
        ELSE a[1] * b[2] > b[1] * a[2]
RGt(a, b) == RGtF[<<a, b>>]

\* np.sum of a sequence of rationals
RSumF[s \in Seq(Rat)] ==
    IF s = <<>> THEN R(0) ELSE RAdd(s[1], RSumF[Tail(s)])
RSum(s) == RSumF[s]

\* ------------------------------------------------------------ the state
VARIABLES
    X, Y, clusters, k,          \* constructor arguments kept by the object
    max_iter, mda_threshold, verbose,
    globalX,                    \* the module-level name X that _m_step reads
    class_prior, latent_var_prior, covar, mu, responsibilities,
    lower_bounds,
    pc,                         \* position of the running train() call
    iter,                       \* loop variable i of _iterate
    delta,                      \* local variable delta of _iterate
    outcome,                    \* how the last train() call ended
    events,                     \* what the running/last train() call printed
    steps,                      \* the E/M steps the running/last call started
    trains,                     \* train() calls made so far
    fitted,                     \* train() calls that returned normally
    esteps,                     \* E-steps completed since construction
    posterior                   \* what the last posterior_probs() call did

params == <<class_prior, latent_var_prior, covar, mu, responsibilities>>
args == <<X, Y, clusters, k, max_iter, mda_threshold, verbose, globalX>>
vars == <<args, params, lower_bounds, pc, iter, delta, outcome, events,
          steps, trains, fitted, esteps, posterior>>

\* self.n and self.m of np.shape(X): one feature per observation
n == Len(X)
m == 1
\* self.freq: the number of observations of each class
freq == [i \in 1..k |-> RSum([t \in 1..n |-> R(Y[t][i])])]
\* the default accuracy, scaled: densities are clipped into [1/4, 3/4]
accuracy == <<1, 4>>

Absent == <<>>

\* the datasets the object is constructed with
Scenarios ==
    { \* one class, one component
      [X |-> <<0, 1, 4>>, Y |-> <<<<1>>, <<1>>, <<1>>>>,
       clusters |-> <<1>>, k |-> 1],
      \* two classes, the second a mixture of two components
      [X |-> <<0, 4, 8, 9, 12>>,
       Y |-> <<<<1, 0>>, <<1, 0>>, <<0, 1>>, <<0, 1>>, <<0, 1>>>>,
       clusters |-> <<1, 2>>, k |-> 2],
      \* two identical observations asked to form two components
      [X |-> <<0, 2, 5, 5>>, Y |-> <<<<1, 0>>, <<1, 0>>, <<0, 1>>, <<0, 1>>>>,
       clusters |-> <<1, 2>>, k |-> 2],
      \* a class with fewer observations than components
      [X |-> <<0, 2, 3>>, Y |-> <<<<1, 0>>, <<1, 0>>, <<0, 1>>>>,
       clusters |-> <<1, 2>>, k |-> 2] }

\* iter_conv_threshold: a tiny one (as the default 1e-20) and one of 1
Thresholds == {<<1, 100>>, <<1, 1>>}

\* the module-level X: undefined (mda imported as a module), the dataset of
\* this fit (the __main__ block), or another array of the same shape (zeros)
GlobalXChoices(x) == {Absent, x, [t \in 1..Len(x) |-> 0]}

NoPosterior == [status |-> "none", value |-> <<>>]

\* MDA.__init__
Init ==
    /\ \E sc \in Scenarios :
          /\ X = sc.X /\ Y = sc.Y /\ clusters = sc.clusters /\ k = sc.k
          /\ globalX \in GlobalXChoices(sc.X)
          /\ class_prior = [f \in 1..m |-> R(0)]
          /\ latent_var_prior =
                [i \in 1..sc.k |->
                    [j \in 1..sc.clusters[i] |-> Norm(1, sc.clusters[i])]]
          /\ mu = [i \in 1..sc.k |-> [j \in 1..sc.clusters[i] |-> R(0)]]
          /\ responsibilities =
                [i \in 1..sc.k |->
                    [t \in 1..Len(sc.X) |->
                        [j \in 1..sc.clusters[i] |-> R(0)]]]
    /\ covar = R(1)
    /\ lower_bounds = <<>>
    /\ max_iter \in 0..MaxIterCap
    /\ mda_threshold \in Thresholds
    /\ verbose \in BOOLEAN
    /\ pc = "idle"
    /\ iter = 0
    /\ delta = R(1)
    /\ outcome = "Fresh"
    /\ events = <<>>
    /\ steps = <<>>
    /\ trains = 0
    /\ fitted = 0
    /\ esteps = 0
    /\ posterior = NoPosterior

\* ------------------------------------------------------------- M-step
\* line 190: class_indicator = Y[:,i] * responsibilities[i][:,j]
ClassIndicator(resp, i, j) ==
    [t \in 1..n |-> RMul(R(Y[t][i]), resp[i][t][j])]

\* line 191: the mixing probability of component j of class i
\* (a variant dividing by the number of all observations, used to show that
\* C8 depends on the division by freq[i])
MixingProbOverAll(resp, i, j) == RDiv(RSum(ClassIndicator(resp, i, j)), R(n))
MixingProb(resp, i, j) == RDiv(RSum(ClassIndicator(resp, i, j)), freq[i])

\* lines 194-195: the mean, computed from the module-level X
WeightedMean(resp, i, j) ==
    LET ci == ClassIndicator(resp, i, j)
        weighted_means == RSum([t \in 1..n |-> RMul(R(globalX[t]), ci[t])])
    IN  RDiv(weighted_means, RSum(ci))

\* lines 198-199: the component's term of the pooled covariance (self.X)
AdditionF[p \in Seq(Rat) \X Rat] ==
    LET ci == p[1]
        centered == [t \in 1..n |-> RSub(R(X[t]), p[2])]
    IN  RSum([t \in 1..n |-> RMul(RMul(centered[t], ci[t]), centered[t])])
Addition(resp, mean, i, j) == AdditionF[<<ClassIndicator(resp, i, j), mean>>]

\* the (class, component) pairs in the order the loops of _m_step visit them
RECURSIVE Components(_)
Components(i) ==
    IF i > k THEN <<>>
    ELSE [j \in 1..clusters[i] |-> <<i, j>>] \o Components(i + 1)

\* _m_step on responsibilities resp.  The name X of line 194 is looked up
\* in the module: undefined, it raises NameError after line 191 has written
\* the first mixing probability.
MStep(resp) ==
    IF globalX = Absent
    THEN [raised |-> TRUE,
          latent_var_prior |->
              [latent_var_prior EXCEPT ![1][1] = MixingProb(resp, 1, 1)],
          mu |-> mu, covar |-> covar]
    ELSE LET newmu == [i \in 1..k |->
                         [j \in 1..clusters[i] |-> WeightedMean(resp, i, j)]]
             adds == [c \in 1..Len(Components(1)) |->
                         LET i == Components(1)[c][1]
                             j == Components(1)[c][2]
                         IN  Addition(resp, newmu[i][j], i, j)]
         IN  [raised |-> FALSE,
              latent_var_prior |->
                  [i \in 1..k |->
                      [j \in 1..clusters[i] |-> MixingProb(resp, i, j)]],
              mu |-> newmu,
              covar |-> RDiv(RSum(adds), R(n))]

\* --------------------------------------------------- _initialise_params
\* line 209: class_prior = freq / sum(freq)
ClassPriorCompute == [i \in 1..k |-> RDiv(freq[i], RSum(freq))]

\* the rows of class i (the boolean mask Y[:,i] == 1), in order
ClassRows(i) == {t \in 1..n : Y[t][i] = 1}

\* KMeans(n_clusters = c).fit(...).predict(...) on the rows of class i: a
\* label per row.  predict labels by the nearest centre, so on one feature
\* a cluster is an interval of values; fit leaves a cluster empty only when
\* the rows hold fewer distinct points than clusters.
KMeansPredictions(i) ==
    LET rows == ClassRows(i)
        c == clusters[i]
        distinct == Cardinality({X[t] : t \in rows})
        used == IF distinct < c THEN distinct ELSE c
    IN  {lab \in [rows -> 1..c] :
            /\ Cardinality({lab[t] : t \in rows}) = used
            /\ \A a, b, d \in rows :
                  (lab[a] = lab[d] /\ X[a] <= X[b] /\ X[b] <= X[d])
                      => lab[b] = lab[a]}

\* KMeans.fit raises ValueError when it gets fewer samples than clusters
KMeansRaises(i) == Cardinality(ClassRows(i)) < clusters[i]

\* the first class whose clustering raises, k + 1 when none does
RECURSIVE FirstFailure(_)
FirstFailure(i) ==
    IF i > k \/ KMeansRaises(i) THEN i ELSE FirstFailure(i + 1)

\* lines 119-127: the responsibilities after the clustering of the classes
\* before `stop`, pred[i] being the prediction for class i
InitResponsibilities(pred, stop) ==
    [i \in 1..k |->
        [t \in 1..n |->
            [j \in 1..clusters[i] |->
                IF i < stop /\ Y[t][i] = 1
                THEN (IF pred[i][t] = j THEN R(1) ELSE R(0))
                ELSE responsibilities[i][t][j]]]]

\* train(): the call and its _initialise_params (class priors, k-means
\* responsibilities, the seed M-step)
Train ==
    /\ pc = "idle"
    /\ trains < MaxTrains
    /\ trains' = trains + 1
    /\ posterior' = NoPosterior
    /\ class_prior' = ClassPriorCompute
    /\ iter' = 0
    /\ delta' = R(1)
    /\ \E pred \in [1..k -> UNION {KMeansPredictions(i) : i \in 1..k}] :
        /\ \A i \in 1..k :
              i < FirstFailure(1) => pred[i] \in KMeansPredictions(i)
        /\ \A i \in 1..k :
              i >= FirstFailure(1) => pred[i] = pred[1]
        /\ \E resp \in {InitResponsibilities(pred, FirstFailure(1))} :
           \E ms \in {MStep(resp)} :
               /\ responsibilities' = resp
               /\ IF FirstFailure(1) <= k
                  THEN /\ UNCHANGED <<latent_var_prior, mu, covar>>
                       /\ steps' = <<>>
                       /\ events' = <<>>
                       /\ pc' = "idle"
                       /\ outcome' = "Aborted"
                  ELSE /\ latent_var_prior' = ms.latent_var_prior
                       /\ mu' = ms.mu
                       /\ covar' = ms.covar
                       /\ steps' = <<"M">>
                       /\ IF ms.raised
                          THEN /\ events' = <<>>
                               /\ pc' = "idle"
                               /\ outcome' = "Aborted"
                          ELSE /\ events' = IF verbose
                                            THEN <<<<"Initialization step complete">>>>
                                            ELSE <<>>
                               /\ pc' = "loop"
                               /\ outcome' = "Iterating"
    /\ UNCHANGED <<args, lower_bounds, fitted, esteps>>

\* ------------------------------------------------------------- E-step
\* lines 215-222: x[x>hi] = hi, then x[x<lo] = lo
bounded_variableF[p \in Rat \X Rat \X Rat] ==
    LET x == p[1]
        lo == p[2]
        hi == p[3]
        y == IF RGt(x, hi) THEN hi ELSE x
    IN  IF RGt(lo, y) THEN lo ELSE y
bounded_variable(x, lo, hi) == bounded_variableF[<<x, lo, hi>>]

\* multivariate_normal.pdf checks the covariance: it raises ValueError for
\* one that is not finite and LinAlgError for a singular one
MvnRaises == ~IsFinite(covar) \/ covar[1] <= 0

\* multivariate_normal.pdf(X, mu[i][:,j], covar) at observation t.  The
\* exponential is not rational: the density is quantised to three levels by
\* the squared standardised distance z2 of the observation from the mean:
\* 0 in the tails (underflow), a value inside the clipping interval, and a
\* value above it near the mean.
PdfLevels == <<R(0), <<3, 4>>, <<5, 4>>>>
PdfLevel[z2 \in Rat] ==
    IF ~IsFinite(z2) THEN NaN
    ELSE IF RGt(z2, R(4)) THEN PdfLevels[1]
    ELSE IF RGt(z2, R(1)) THEN PdfLevels[2]
    ELSE PdfLevels[3]
Square[d \in Rat] == RMul(d, d)
MvnPdf(t, i, j) == PdfLevel[RDiv(Square[RSub(R(X[t]), mu[i][j])], covar)]

\* line 167 (and 102): the clipped density of observation t under (i, j)
Prior(t, i, j) ==
    bounded_variable(MvnPdf(t, i, j), accuracy, RSub(R(1), accuracy))

\* line 172: resp_k[:,j] = prior * latent_var_prior[i][j]
Unnormalised(i) ==
    [t \in 1..n |->
        [j \in 1..clusters[i] |->
            RMul(Prior(t, i, j), latent_var_prior[i][j])]]

\* lines 173-174: every row divided by its sum over the components
NormaliseRow[row \in Seq(Rat)] ==
    LET normaliser == RSum(row)
    IN  [j \in 1..Len(row) |-> RDiv(row[j], normaliser)]
\* (a variant dividing by the first entry of the row, used to show that C6
\* depends on the row sum)
NormaliseByFirst(rows) ==
    [t \in 1..n |-> [j \in 1..Len(rows[t]) |-> RDiv(rows[t][j], rows[t][1])]]
Normalise(rows) == [t \in 1..n |-> NormaliseRow[rows[t]]]

EStepResponsibilities == [i \in 1..k |-> Normalise(Unnormalised(i))]

\* the values line 175 appends: a sum of weighted logarithms of numbers
\* below 1, negative
BoundValues == {R(0 - 3), R(0 - 2), R(0 - 1)}

\* line 175: self.lower_bounds.append(lower_bound)
\* (a variant that keeps only the newest value, used to show that C7 depends
\* on the append)
ReplaceBound(history, lower_bound) == <<lower_bound>>
AppendBound(history, lower_bound) == Append(history, lower_bound)

\* line 141: for i in range(self.max_iter) has another iteration to run
\* (a variant running one iteration more, used to show that C2 depends on
\* the loop bound)
InRangeInclusive == iter <= max_iter
InRange == iter < max_iter

\* lines 142-148: where the loop body goes on after its E-step, the test of
\* the change
\* (a variant going straight to the next iteration, used to show that C9
\* depends on the M-step between two E-steps)
LoopSkipsTest == "loop"
AfterEStep == "test"

\* line 142: the E-step of an iteration, _e_step_lower_bound_likelihood
EStep ==
    /\ pc = "loop"
    /\ InRange
    /\ steps' = Append(steps, "E")
    /\ IF MvnRaises
       THEN /\ pc' = "idle"
            /\ outcome' = "Aborted"
            /\ UNCHANGED <<responsibilities, lower_bounds, esteps>>
       ELSE /\ responsibilities' = EStepResponsibilities
            /\ \E lower_bound \in BoundValues :
                 lower_bounds' = AppendBound(lower_bounds, lower_bound)
            /\ esteps' = esteps + 1
            /\ pc' = AfterEStep
            /\ UNCHANGED outcome
    /\ UNCHANGED <<args, class_prior, latent_var_prior, covar, mu, iter,
                   delta, events, trains, fitted, posterior>>

\* ---------------------------------------------------- the loop of _iterate
\* lines 143-145: delta after the E-step of this iteration
Delta ==
    IF Len(lower_bounds) >= 2
    THEN LET last == lower_bounds[Len(lower_bounds)]
             prev == lower_bounds[Len(lower_bounds) - 1]
         IN  RDiv(RSub(last, prev), RAbs(prev))
    ELSE delta

\* line 148: the change is larger than the threshold
Continues == RGt(Delta, mda_threshold)

\* lines 148-152: the M-step of an iteration
IterMStep ==
    /\ pc = "test"
    /\ Continues
    /\ delta' = Delta
    /\ steps' = Append(steps, "M")
    /\ \E ms \in {MStep(responsibilities)} :
           /\ latent_var_prior' = ms.latent_var_prior
           /\ mu' = ms.mu
           /\ covar' = ms.covar
           /\ IF ms.raised
              THEN /\ pc' = "idle"
                   /\ outcome' = "Aborted"
                   /\ UNCHANGED <<events, iter>>
              ELSE /\ events' =
                        IF verbose
                        THEN Append(events,
                                 <<"iteration", iter,
                                   lower_bounds[Len(lower_bounds)]>>)
                        ELSE events
                   /\ iter' = iter + 1
                   /\ pc' = "loop"
                   /\ UNCHANGED outcome
    /\ UNCHANGED <<args, class_prior, responsibilities, lower_bounds, trains,
                   fitted, esteps, posterior>>

\* lines 153-155: print "algorithm converged" and break
Converge ==
    /\ pc = "test"
    /\ ~Continues
    /\ delta' = Delta
    /\ events' = Append(events, <<"algorithm converged">>)
    /\ pc' = "idle"
    /\ outcome' = "Converged"
    /\ fitted' = fitted + 1
    /\ UNCHANGED <<args, params, lower_bounds, iter, steps, trains, esteps,
                   posterior>>

\* line 141: range(max_iter) is exhausted, _iterate and train() return
LoopExit ==
    /\ pc = "loop"
    /\ ~InRange
    /\ pc' = "idle"
    /\ outcome' = "MaxIterReached"
    /\ fitted' = fitted + 1
    /\ UNCHANGED <<args, params, lower_bounds, iter, delta, events, steps,
                   trains, esteps>>
    /\ UNCHANGED posterior

\* ------------------------------------------------------- posterior_probs
\* lines 99-104: posterior[:,c] = class_prob * class_prior[c]
ClassProb(t, c) ==
    RSum([j \in 1..clusters[c] |->
             RMul(Prior(t, c, j), latent_var_prior[c][j])])

PosteriorMatrix ==
    Normalise([t \in 1..n |->
                  [c \in 1..k |-> RMul(ClassProb(t, c), class_prior[c])]])

\* posterior_probs(), called between train() calls.  class_prior[c] raises
\* IndexError for a class beyond the length of class_prior.
PosteriorProbs ==
    /\ pc = "idle"
    /\ IF MvnRaises \/ k > Len(class_prior)
       THEN posterior' = [status |-> "raised", value |-> <<>>]
       ELSE posterior' = [status |-> "returned", value |-> PosteriorMatrix]
    /\ UNCHANGED <<args, params, lower_bounds, pc, iter, delta, outcome,
                   events, steps, trains, fitted, esteps>>

Next ==
    \/ Train
    \/ EStep
    \/ IterMStep
    \/ Converge
    \/ LoopExit
    \/ PosteriorProbs

Spec == Init /\ [][Next]_vars

\* the scheduling of a running train() call: it is one thread of control, so
\* its next step is taken; calling train() or posterior_probs() is up to the
\* caller
FairSpec == Spec /\ WF_vars(EStep \/ IterMStep \/ Converge \/ LoopExit)

\* --------------------------------------------------------------- claims
Last(s) == s[Len(s)]
Count(s, x) == Cardinality({p \in 1..Len(s) : s[p] = x})
TrainReturned == pc = "idle" /\ trains > 0
LastStepWas(x) == steps # <<>> /\ Last(steps) = x

\* the relative change of the lower bound, (bound[-1] - bound[-2]) /
\* |bound[-2]|, not greater than the threshold
SmallChange ==
    /\ Len(lower_bounds) >= 2
    /\ ~RGt(RDiv(RSub(Last(lower_bounds),
                       lower_bounds[Len(lower_bounds) - 1]),
                  RAbs(lower_bounds[Len(lower_bounds) - 1])),
             mda_threshold)

\* C1: an iteration ends the loop in Converged exactly when, after its
\* E-step, the history holds at least two entries and the relative change is
\* not greater than the threshold; otherwise its M-step runs and the loop
\* continues; nothing runs after Converged.
C1_ConvergesExactlyOnSmallChange ==
    /\ (pc = "idle" /\ outcome = "Converged") => (SmallChange /\ LastStepWas("E"))
    /\ (pc = "loop" /\ iter > 0) => (~SmallChange /\ LastStepWas("M"))

\* C2 as claimed: every train() call that has returned ended in Converged or
\* MaxIterReached, after at most max_iter E-steps and max_iter + 1 M-steps.
C2_EndsConvergedOrMaxIter ==
    /\ Count(steps, "E") <= max_iter
    /\ Count(steps, "M") <= max_iter + 1
    /\ TrainReturned => outcome \in {"Converged", "MaxIterReached"}

\* C2 as amended: a train() call starts at most max_iter E-steps and
\* max_iter + 1 M-steps, and a running call eventually stops: Converged,
\* MaxIterReached, or aborted by an exception.
C2_Terminates ==
    /\ [](Count(steps, "E") <= max_iter /\ Count(steps, "M") <= max_iter + 1)
    /\ [](TrainReturned =>
            outcome \in {"Converged", "MaxIterReached", "Aborted"})
    /\ (pc # "idle") ~> (pc = "idle")

C2_Witness ==
    /\ TrainReturned /\ outcome = "MaxIterReached"
    /\ max_iter = 2
    /\ Count(steps, "E") = 2 /\ Count(steps, "M") = 3

\* C3: a train() call that ends in MaxIterReached has reported it: the last
\* thing it emitted is an event of its own, neither the progress event of an
\* iteration, nor the initialization event, nor the converged event.
C3_MaxIterReachedIsReported ==
    (pc = "idle" /\ outcome = "MaxIterReached") =>
        /\ events # <<>>
        /\ Last(events)[1] \notin {"Initialization step complete",
                                    "iteration", "algorithm converged"}

\* C4: an M-step that meets a component without responsibility mass raises
\* (the call is aborted); no mean is ever nan and no E-step starts on one.
C4_DegenerateComponentRaises ==
    /\ \A i \in 1..k : \A j \in 1..clusters[i] : ~IsNaN(mu[i][j])
    /\ LastStepWas("M") =>
          \A i \in 1..k : \A j \in 1..clusters[i] :
              RSum(ClassIndicator(responsibilities, i, j)) = R(0)
                  => outcome = "Aborted"

\* C5: posterior_probs() returns a matrix only when a train() call on the
\* instance has completed, and the last call was not aborted.
C5_PosteriorOnlyAfterTraining ==
    posterior.status = "returned" =>
        (fitted >= 1 /\ outcome \in {"Converged", "MaxIterReached"})

\* C6: after each completed E-step, the responsibilities of every
\* observation over the components of its own class sum to 1.
C6_RowsSumToOne ==
    (LastStepWas("E") /\ outcome # "Aborted") =>
        \A i \in 1..k : \A t \in 1..n :
            Y[t][i] = 1 => RSum(responsibilities[i][t]) = R(1)

C6_Witness ==
    /\ pc = "test" /\ clusters = <<1, 2>> /\ Len(lower_bounds) >= 2
    /\ \E t \in 1..n :
          /\ Y[t][2] = 1
          /\ responsibilities[2][t][1] \notin {R(0), R(1)}
          /\ responsibilities[2][t][1] # responsibilities[2][t][2]

\* C7: the lower-bound history has one entry per completed E-step, and every
\* step either leaves it as it is or appends one value at its end, which
\* happens exactly when an E-step completes.
C7_HistoryAppendOnly ==
    /\ [](Len(lower_bounds) = esteps)
    /\ [][\/ lower_bounds' = lower_bounds /\ esteps' = esteps
          \/ /\ esteps' = esteps + 1
             /\ Len(lower_bounds') = Len(lower_bounds) + 1
             /\ SubSeq(lower_bounds', 1, Len(lower_bounds)) = lower_bounds]_vars

C7_Witness ==
    /\ trains = 2 /\ Len(lower_bounds) >= 3 /\ posterior.status = "returned"
    /\ lower_bounds[1] # lower_bounds[2]

\* C8: after initialization and after every completed M-step the mixing
\* weights of each class are non-negative and sum to 1.
C8_MixingWeightsSumToOne ==
    (LastStepWas("M") /\ outcome # "Aborted") =>
        \A i \in 1..k :
            /\ RSum(latent_var_prior[i]) = R(1)
            /\ \A j \in 1..clusters[i] :
                  IsFinite(latent_var_prior[i][j]) /\ latent_var_prior[i][j][1] >= 0

C8_Witness ==
    /\ LastStepWas("M") /\ Len(steps) >= 3 /\ clusters = <<1, 2>>
    /\ latent_var_prior[2][1] \notin {R(0), R(1), <<1, 2>>}

\* C9: the steps of a train() call alternate, starting with the seed M-step:
\* M, E, M, E, ...
C9_StepsAlternate ==
    \A p \in 1..Len(steps) :
        steps[p] = IF p % 2 = 1 THEN "M" ELSE "E"

C9_Witness == Len(steps) >= 5 /\ pc = "idle"

\* the mean of component j of class i computed from the dataset of the fit
OwnMean(i, j) ==
    LET ci == ClassIndicator(responsibilities, i, j)
    IN  RDiv(RSum([t \in 1..n |-> RMul(R(X[t]), ci[t])]), RSum(ci))

\* C10: an M-step completes whatever exists outside the instance, and the
\* means it writes are those of the instance's own X, Y and responsibilities.
C10_MStepUsesOwnState ==
    LastStepWas("M") =>
        /\ outcome # "Aborted"
        /\ \A i \in 1..k : \A j \in 1..clusters[i] : mu[i][j] = OwnMean(i, j)

====
